---- MODULE Spec2Model ----
(***************************************************************************)
(* Model of the cuna cue-sheet parser: the command grammar (Command::new), *)
(* the document builder (Command::parse) and the line scanner (Parser).    *)
(*                                                                         *)
(* Representation.  A Rust string is a sequence of one-character strings.  *)
(* Option<T> is a sequence of length 0 (None) or 1 (Some).  A u64 catalog  *)
(* value is kept as its canonical decimal digit string (no leading zero),  *)
(* which is what u64 parsing and u64 Display agree on.                      *)
(***************************************************************************)
EXTENDS Integers, Sequences, FiniteSets, TLC

VARIABLES sheet, cmd, res, n, text, pos, perr, alive, out

vars == <<sheet, cmd, res, n, text, pos, perr, alive, out>>

(* ---------------------------- bounds ----------------------------------- *)
MaxCmds == 5
MaxLines == 3
MaxBatch == 2

(* ---------------------------- Option<T> -------------------------------- *)
None == <<>>
Some(x) == <<x>>
IsNone(o) == o = <<>>
IsSome(o) == o # <<>>
Unwrap(o) == o[1]

(* ---------------------------- characters ------------------------------- *)
Digits == <<"0", "1", "2", "3", "4", "5", "6", "7", "8", "9">>
IsDigit(c) == \E i \in 1..10 : Digits[i] = c
DigitVal(c) == (CHOOSE i \in 1..10 : Digits[i] = c) - 1
DigitChar(d) == Digits[d + 1]

(* format!("{}", id) for a u8 *)
U8ToString(id) ==
    IF id < 10 THEN <<DigitChar(id)>>
    ELSE IF id < 100 THEN <<DigitChar(id \div 10), DigitChar(id % 10)>>
    ELSE <<DigitChar(id \div 100), DigitChar((id \div 10) % 10), DigitChar(id % 10)>>

(* ---------------------------- TimeStamp -------------------------------- *)
(* "MM:SS:FF", 75 frames per second *)
FramesPerSecond == 75
SecondsPerMinute == 60

TimeStampNew(m, s, f) == [minutes |-> m, seconds |-> s, frames |-> f]

Two(a, b) == DigitVal(a) * 10 + DigitVal(b)

(* <TimeStamp as FromStr>::from_str: Some(timestamp) or None (invalid) *)
TimeStampFromStr(s) ==
    IF /\ Len(s) = 8
       /\ \A i \in {1, 2, 4, 5, 7, 8} : IsDigit(s[i])
       /\ s[3] = ":" /\ s[6] = ":"
       /\ Two(s[4], s[5]) < SecondsPerMinute
       /\ Two(s[7], s[8]) < FramesPerSecond
    THEN Some(TimeStampNew(Two(s[1], s[2]), Two(s[4], s[5]), Two(s[7], s[8])))
    ELSE None

(* <TimeStamp as Display>::fmt *)
Pad2(v) == <<DigitChar((v \div 10) % 10), DigitChar(v % 10)>>
TimeStampToString(t) ==
    Pad2(t.minutes) \o <<":">> \o Pad2(t.seconds) \o <<":">> \o Pad2(t.frames)

(* ---------------------------- errors ----------------------------------- *)
(* A Result of unit or ParseError.  SyntaxError(String) holds content: desc *)
(* and is kept as the pair (content, desc).                                 *)
Ok == [kind |-> "Ok", content |-> <<>>, desc |-> ""]
syntax_error(content, description) ==
    [kind |-> "SyntaxError", content |-> content, desc |-> description]
unexpected_token(msg) ==
    [kind |-> "UnexpectedToken", content |-> msg, desc |-> ""]
InvalidTimestamp ==
    [kind |-> "InvalidArgument", content |-> <<>>, desc |-> "InvalidTimestamp"]
Empty == [kind |-> "Empty", content |-> <<>>, desc |-> ""]

(* the descriptions of fail!(syntax ..), written without their backquotes *)
MultipleCatalog == "multiple CATALOG commands is not allowed"
TrackNoFile == "Multiple CATALOG commands is not allowed"
IndexBeforePostgap == "Command INDEX should be before POSTGAP"
PregapBeforeIndex == "Command PREGAP should be before INDEX"
MultiplePregap == "Multiple PREGAP commands are not allowed in one TRACK scope"
MultiplePostgap == "Multiple POSTGAP commands are not allowed in one TRACK scope"
MultipleIsrc == "Multiple ISRC commands are not allowed in one TRACK scope"
MultipleFlags == "Multiple FLAGS commands are not allowed in one TRACK scope"

(* ---------------------------- Command ---------------------------------- *)
NoCommand == [op |-> "None"]
Rem(s) == [op |-> "Rem", s |-> s]
Title(s) == [op |-> "Title", s |-> s]
Performer(s) == [op |-> "Performer", s |-> s]
Songwriter(s) == [op |-> "Songwriter", s |-> s]
Catalog(c) == [op |-> "Catalog", c |-> c]
Cdtextfile(s) == [op |-> "Cdtextfile", s |-> s]
File(name, format) == [op |-> "File", name |-> name, format |-> format]
Track(id, format) == [op |-> "Track", id |-> id, format |-> format]
Index(id, ts) == [op |-> "Index", id |-> id, ts |-> ts]
Pregap(s) == [op |-> "Pregap", s |-> s]
Postgap(s) == [op |-> "Postgap", s |-> s]
Isrc(s) == [op |-> "Isrc", s |-> s]
Flags(s) == [op |-> "Flags", s |-> s]

(* impl fmt::Display for Command *)
CommandToString(c) ==
    CASE c.op = "Rem" -> <<"R", "E", "M", " ">> \o c.s
      [] c.op = "Title" -> <<"T", "I", "T", "L", "E", " ", "\"">> \o c.s \o <<"\"">>
      [] c.op = "Performer" ->
            <<"P", "E", "R", "F", "O", "R", "M", "E", "R", " ", "\"">> \o c.s \o <<"\"">>
      [] c.op = "Songwriter" ->
            <<"S", "O", "N", "G", "W", "R", "I", "T", "E", "R", " ", "\"">> \o c.s \o <<"\"">>
      [] c.op = "Catalog" -> <<"C", "A", "T", "A", "L", "O", "G", " ">> \o c.c
      [] c.op = "Cdtextfile" ->
            <<"C", "D", "T", "E", "X", "T", "F", "I", "L", "E", " ", "\"">> \o c.s \o <<"\"">>
      [] c.op = "File" ->
            <<"F", "I", "L", "E", " ", "\"">> \o c.name \o <<"\"", " ">> \o c.format
      [] c.op = "Track" ->
            <<"T", "R", "A", "C", "K", " ">> \o U8ToString(c.id) \o <<" ">> \o c.format
      [] c.op = "Index" ->
            <<"I", "N", "D", "E", "X", " ">> \o U8ToString(c.id) \o <<" ">>
                \o TimeStampToString(c.ts)
      [] c.op = "Pregap" -> <<"P", "R", "E", "G", "A", "P", " ">> \o c.s
      [] c.op = "Postgap" -> <<"P", "O", "S", "T", "G", "A", "P", " ">> \o c.s
      [] c.op = "Isrc" -> <<"I", "S", "R", "C", " ">> \o c.s
      [] c.op = "Flags" -> <<"F", "L", "A", "G", " ">> \o c.s

(* ---------------------------- document model --------------------------- *)
HeaderDefault ==
    [title |-> None, performer |-> None, songwriter |-> None,
     catalog |-> None, cdtextfile |-> None]

CunaDefault == [comments |-> <<>>, header |-> HeaderDefault, files |-> <<>>]

(* Option<Vec<String>>::get_or_insert_with(Vec::new).push(s) *)
PushOpt(o, s) == IF IsNone(o) THEN Some(<<s>>) ELSE Some(Append(Unwrap(o), s))

HeaderPushTitle(h, s) == [h EXCEPT !.title = PushOpt(@, s)]
HeaderPushPerformer(h, s) == [h EXCEPT !.performer = PushOpt(@, s)]
HeaderPushSongwriter(h, s) == [h EXCEPT !.songwriter = PushOpt(@, s)]
(* replace-and-return-previous; the builder drops the returned value *)
HeaderSetCdtextfile(h, s) == [h EXCEPT !.cdtextfile = Some(s)]

IndexNewUnchecked(id, begin_time) == [id |-> id, begin_time |-> begin_time]

TrackNewUnchecked(id, format) ==
    [id |-> id, format |-> format, index |-> <<>>, pregap |-> None,
     postgap |-> None, title |-> None, performer |-> None,
     songwriter |-> None, isrc |-> None, flags |-> None]

TrackPushTitle(tk, s) == [tk EXCEPT !.title = PushOpt(@, s)]
TrackPushPerformer(tk, s) == [tk EXCEPT !.performer = PushOpt(@, s)]
TrackPushSongwriter(tk, s) == [tk EXCEPT !.songwriter = PushOpt(@, s)]
TrackPushIndex(tk, ix) == [tk EXCEPT !.index = Append(@, ix)]
TrackSetPregap(tk, d) == [tk EXCEPT !.pregap = Some(d)]
TrackSetPostgap(tk, d) == [tk EXCEPT !.postgap = Some(d)]
TrackSetIsrc(tk, s) == [tk EXCEPT !.isrc = Some(s)]
TrackPushFlags(tk, fl) ==
    [tk EXCEPT !.flags = Some((IF IsNone(@) THEN <<>> ELSE Unwrap(@)) \o fl)]

TrackInfoNew(name, format) == [name |-> name, format |-> format, tracks |-> <<>>]

(* TrackInfo::push_track that inserts the new track at the front *)
TrackInfoPushTrack_Prepend(f, tk) == [f EXCEPT !.tracks = <<tk>> \o @]

TrackInfoPushTrack(f, tk) == [f EXCEPT !.tracks = Append(@, tk)]

(* Cuna::last_file_mut / Cuna::last_track_mut: "current" is the last element *)
HasFile(sh) == Len(sh.files) > 0
LastFile(sh) == sh.files[Len(sh.files)]
HasTrack(sh) == HasFile(sh) /\ Len(LastFile(sh).tracks) > 0
LastTrack(sh) == LastFile(sh).tracks[Len(LastFile(sh).tracks)]
PushFile(sh, f) == [sh EXCEPT !.files = Append(@, f)]
SetLastFile(sh, f) == [sh EXCEPT !.files[Len(sh.files)] = f]
SetLastTrack(sh, tk) ==
    SetLastFile(sh, [LastFile(sh) EXCEPT !.tracks[Len(LastFile(sh).tracks)] = tk])

(* str::split(' ') collected into a Vec: never empty, keeps empty pieces *)
RECURSIVE Split(_, _)
Split(s, sep) ==
    IF \A i \in 1..Len(s) : s[i] # sep THEN <<s>>
    ELSE LET k == CHOOSE i \in 1..Len(s) :
                      s[i] = sep /\ \A j \in 1..(i - 1) : s[j] # sep
         IN <<SubSeq(s, 1, k - 1)>> \o Split(SubSeq(s, k + 1, Len(s)), sep)

(* ---------------------------- Command::parse --------------------------- *)
(* Each arm of the match gives the sheet after the call and the result.    *)
Done(sh) == [sheet |-> sh, res |-> Ok]
Fail(sh, e) == [sheet |-> sh, res |-> e]

ParseRem(sh, c) == Done([sh EXCEPT !.comments = Append(@, c.s)])

ParseTitle(sh, c) ==
    IF HasTrack(sh) THEN Done(SetLastTrack(sh, TrackPushTitle(LastTrack(sh), c.s)))
    ELSE Done([sh EXCEPT !.header = HeaderPushTitle(@, c.s)])


(* ParsePerformer that always writes to the header *)
ParsePerformer_AlwaysHeader(sh, c) ==
    Done([sh EXCEPT !.header = HeaderPushPerformer(@, c.s)])

ParsePerformer(sh, c) ==
    IF HasTrack(sh) THEN Done(SetLastTrack(sh, TrackPushPerformer(LastTrack(sh), c.s)))
    ELSE Done([sh EXCEPT !.header = HeaderPushPerformer(@, c.s)])

ParseSongwriter(sh, c) ==
    IF HasTrack(sh) THEN Done(SetLastTrack(sh, TrackPushSongwriter(LastTrack(sh), c.s)))
    ELSE Done([sh EXCEPT !.header = HeaderPushSongwriter(@, c.s)])


(* ParseCatalog that reports the duplicate after storing it *)
ParseCatalog_Overwrite(sh, c) ==
    IF IsNone(sh.header.catalog) THEN Done([sh EXCEPT !.header.catalog = Some(c.c)])
    ELSE Fail([sh EXCEPT !.header.catalog = Some(c.c)],
              syntax_error(CommandToString(c), MultipleCatalog))

ParseCatalog(sh, c) ==
    IF IsNone(sh.header.catalog) THEN Done([sh EXCEPT !.header.catalog = Some(c.c)])
    ELSE Fail(sh, syntax_error(CommandToString(c), MultipleCatalog))

ParseCdtextfile(sh, c) == Done([sh EXCEPT !.header = HeaderSetCdtextfile(@, c.s)])

ParseFile(sh, c) == Done(PushFile(sh, TrackInfoNew(c.name, c.format)))

ParseTrack(sh, c) ==
    IF HasFile(sh)
    THEN Done(SetLastFile(sh, TrackInfoPushTrack(LastFile(sh),
                                                 TrackNewUnchecked(c.id, c.format))))
    ELSE Fail(sh, syntax_error(CommandToString(c), TrackNoFile))


(* ParseIndex without the test that postgap is unset *)
ParseIndex_IgnorePostgap(sh, c) ==
    IF HasTrack(sh)
    THEN Done(SetLastTrack(sh, TrackPushIndex(LastTrack(sh),
                                              IndexNewUnchecked(c.id, c.ts))))
    ELSE Fail(sh, unexpected_token(<<"I", "N", "D", "E", "X">>))

(* ParseIndex that appends the index before it tests the postgap *)
ParseIndex_PushThenCheck(sh, c) ==
    IF HasTrack(sh) /\ IsNone(LastTrack(sh).postgap)
    THEN Done(SetLastTrack(sh, TrackPushIndex(LastTrack(sh),
                                              IndexNewUnchecked(c.id, c.ts))))
    ELSE IF HasTrack(sh)
    THEN Fail(SetLastTrack(sh, TrackPushIndex(LastTrack(sh),
                                              IndexNewUnchecked(c.id, c.ts))),
              syntax_error(CommandToString(c), IndexBeforePostgap))
    ELSE Fail(sh, unexpected_token(<<"I", "N", "D", "E", "X">>))

ParseIndex(sh, c) ==
    IF HasTrack(sh) /\ IsNone(LastTrack(sh).postgap)
    THEN Done(SetLastTrack(sh, TrackPushIndex(LastTrack(sh),
                                              IndexNewUnchecked(c.id, c.ts))))
    ELSE IF HasTrack(sh)
    THEN Fail(sh, syntax_error(CommandToString(c), IndexBeforePostgap))
    ELSE Fail(sh, unexpected_token(<<"I", "N", "D", "E", "X">>))


(* ParsePregap without the test that the index list is empty *)
ParsePregap_NoIndexCheck(sh, c) ==
    IF HasTrack(sh) /\ IsNone(LastTrack(sh).pregap)
    THEN IF IsSome(TimeStampFromStr(c.s))
         THEN Done(SetLastTrack(sh, TrackSetPregap(LastTrack(sh),
                                                   Unwrap(TimeStampFromStr(c.s)))))
         ELSE Fail(sh, InvalidTimestamp)
    ELSE IF HasTrack(sh)
    THEN Fail(sh, syntax_error(CommandToString(c), MultiplePregap))
    ELSE Fail(sh, unexpected_token(<<"P", "R", "E", "G", "A", "P">>))

ParsePregap(sh, c) ==
    IF HasTrack(sh) /\ LastTrack(sh).index = <<>> /\ IsNone(LastTrack(sh).pregap)
    THEN IF IsSome(TimeStampFromStr(c.s))
         THEN Done(SetLastTrack(sh, TrackSetPregap(LastTrack(sh),
                                                   Unwrap(TimeStampFromStr(c.s)))))
         ELSE Fail(sh, InvalidTimestamp)
    ELSE IF HasTrack(sh) /\ LastTrack(sh).index # <<>>
    THEN Fail(sh, syntax_error(CommandToString(c), PregapBeforeIndex))
    ELSE IF HasTrack(sh) /\ IsSome(LastTrack(sh).pregap)
    THEN Fail(sh, syntax_error(CommandToString(c), MultiplePregap))
    ELSE Fail(sh, unexpected_token(<<"P", "R", "E", "G", "A", "P">>))


(* ParsePostgap whose last two arms are merged into the duplicate error *)
ParsePostgap_NoScopeArm(sh, c) ==
    IF HasTrack(sh) /\ IsNone(LastTrack(sh).postgap)
    THEN IF IsSome(TimeStampFromStr(c.s))
         THEN Done(SetLastTrack(sh, TrackSetPostgap(LastTrack(sh),
                                                    Unwrap(TimeStampFromStr(c.s)))))
         ELSE Fail(sh, InvalidTimestamp)
    ELSE Fail(sh, syntax_error(CommandToString(c), MultiplePostgap))

ParsePostgap(sh, c) ==
    IF HasTrack(sh) /\ IsNone(LastTrack(sh).postgap)
    THEN IF IsSome(TimeStampFromStr(c.s))
         THEN Done(SetLastTrack(sh, TrackSetPostgap(LastTrack(sh),
                                                    Unwrap(TimeStampFromStr(c.s)))))
         ELSE Fail(sh, InvalidTimestamp)
    ELSE IF HasTrack(sh)
    THEN Fail(sh, syntax_error(CommandToString(c), MultiplePostgap))
    ELSE Fail(sh, unexpected_token(<<"P", "O", "S", "T", "G", "A", "P">>))


(* ParseIsrc without the test that isrc is unset *)
ParseIsrc_Overwrite(sh, c) ==
    IF HasTrack(sh)
    THEN Done(SetLastTrack(sh, TrackSetIsrc(LastTrack(sh), c.s)))
    ELSE Fail(sh, unexpected_token(<<"I", "S", "R", "C">>))

ParseIsrc(sh, c) ==
    IF HasTrack(sh) /\ IsNone(LastTrack(sh).isrc)
    THEN Done(SetLastTrack(sh, TrackSetIsrc(LastTrack(sh), c.s)))
    ELSE IF HasTrack(sh)
    THEN Fail(sh, syntax_error(CommandToString(c), MultipleIsrc))
    ELSE Fail(sh, unexpected_token(<<"I", "S", "R", "C">>))

ParseFlags(sh, c) ==
    IF HasTrack(sh) /\ IsNone(LastTrack(sh).flags)
    THEN Done(SetLastTrack(sh, TrackPushFlags(LastTrack(sh), Split(c.s, " "))))
    ELSE IF HasTrack(sh)
    THEN Fail(sh, syntax_error(CommandToString(c), MultipleFlags))
    ELSE Fail(sh, unexpected_token(<<"F", "L", "A", "G", "S">>))

(* Command::parse(&self, sheet) *)
CommandParse(c, sh) ==
    CASE c.op = "Rem" -> ParseRem(sh, c)
      [] c.op = "Title" -> ParseTitle(sh, c)
      [] c.op = "Performer" -> ParsePerformer(sh, c)
      [] c.op = "Songwriter" -> ParseSongwriter(sh, c)
      [] c.op = "Catalog" -> ParseCatalog(sh, c)
      [] c.op = "Cdtextfile" -> ParseCdtextfile(sh, c)
      [] c.op = "File" -> ParseFile(sh, c)
      [] c.op = "Track" -> ParseTrack(sh, c)
      [] c.op = "Index" -> ParseIndex(sh, c)
      [] c.op = "Pregap" -> ParsePregap(sh, c)
      [] c.op = "Postgap" -> ParsePostgap(sh, c)
      [] c.op = "Isrc" -> ParseIsrc(sh, c)
      [] c.op = "Flags" -> ParseFlags(sh, c)

(* ---------------------------- primitive matchers ----------------------- *)
WhiteSpace == {" ", "\t"}
Upper == <<"A", "B", "C", "D", "E", "F", "G", "H", "I", "J", "K", "L", "M",
           "N", "O", "P", "Q", "R", "S", "T", "U", "V", "W", "X", "Y", "Z">>
Lower == <<"a", "b", "c", "d", "e", "f", "g", "h", "i", "j", "k", "l", "m",
           "n", "o", "p", "q", "r", "s", "t", "u", "v", "w", "x", "y", "z">>

(* a lower-casing that leaves the string as it is *)
ToAsciiLowercase_Identity(s) == s

(* str::to_ascii_lowercase *)
ToAsciiLowercase(s) ==
    [i \in 1..Len(s) |->
        IF \E k \in 1..26 : Upper[k] = s[i]
        THEN Lower[CHOOSE k \in 1..26 : Upper[k] = s[i]]
        ELSE s[i]]

(* str::trim_matches over a set of characters; str::trim is the white-space case *)
TrimSet(s, set) ==
    IF \A i \in 1..Len(s) : s[i] \in set THEN <<>>
    ELSE LET a == CHOOSE i \in 1..Len(s) :
                      s[i] \notin set /\ \A j \in 1..(i - 1) : s[j] \in set
             b == CHOOSE i \in 1..Len(s) :
                      s[i] \notin set /\ \A j \in (i + 1)..Len(s) : s[j] \in set
         IN SubSeq(s, a, b)
Trim(s) == TrimSet(s, WhiteSpace)
TrimQuotes(s) == TrimSet(s, {"\""})

NoMatch == [ok |-> FALSE, rest |-> <<>>, value |-> <<>>]
Match(rest, value) == [ok |-> TRUE, rest |-> rest, value |-> value]

(* utils::token: terminated(take_until(" "), tag(" ")) *)
token(content) ==
    IF \A i \in 1..Len(content) : content[i] # " " THEN NoMatch
    ELSE LET k == CHOOSE i \in 1..Len(content) :
                      content[i] = " " /\ \A j \in 1..(i - 1) : content[j] # " "
         IN Match(SubSeq(content, k + 1, Len(content)), SubSeq(content, 1, k - 1))

(* utils::quote: delimited(tag("\""), take_until("\""), tag("\"")) *)
quote(content) ==
    IF Len(content) >= 2 /\ content[1] = "\"" /\ \E i \in 2..Len(content) : content[i] = "\""
    THEN LET k == CHOOSE i \in 2..Len(content) :
                      content[i] = "\"" /\ \A j \in 2..(i - 1) : content[j] # "\""
         IN Match(SubSeq(content, k + 1, Len(content)), SubSeq(content, 2, k - 1))
    ELSE NoMatch

(* utils::quote_opt: alt((quote, rest)) *)
quote_opt(content) ==
    LET q == quote(content) IN IF q.ok THEN q ELSE Match(<<>>, content)

(* digit0: the longest prefix of decimal digits *)
digit0(i) ==
    LET k == IF \A j \in 1..Len(i) : IsDigit(i[j]) THEN Len(i)
             ELSE (CHOOSE j \in 1..Len(i) :
                       ~IsDigit(i[j]) /\ \A l \in 1..(j - 1) : IsDigit(i[l])) - 1
    IN Match(SubSeq(i, k + 1, Len(i)), SubSeq(i, 1, k))

(* utils::number(n): verify(digit0, len == n), then str::parse; the value *)
(* matched is the digit string, turned into a number by the caller's type *)
number(nd, i) ==
    LET d == digit0(i) IN IF Len(d.value) = nd THEN d ELSE NoMatch

(* str::parse::<u8> of two decimal digits *)
ParseU8(d) == Two(d[1], d[2])

(* str::parse::<u64>: the value, as its decimal digits without leading zeros *)
ParseU64(d) ==
    IF \A j \in 1..Len(d) : d[j] = "0" THEN <<"0">>
    ELSE SubSeq(d, CHOOSE j \in 1..Len(d) :
                       d[j] # "0" /\ \A l \in 1..(j - 1) : d[l] = "0", Len(d))

(* ---------------------------- Command::new ----------------------------- *)
InvalidId == [kind |-> "InvalidArgument", content |-> <<>>, desc |-> "InvalidId"]
MissingArguments == "missing arguments"
InvalidCatalog == "invaild catalog"

Parsed(c) == [res |-> Ok, cmd |-> c]
Rejected(e) == [res |-> e, cmd |-> NoCommand]

NewCatalog(command, content) ==
    LET c13 == number(13, content) IN
    IF c13.ok THEN Parsed(Catalog(ParseU64(c13.value)))
    ELSE Rejected(syntax_error(content, InvalidCatalog))

NewFile(command, content) ==
    LET q == quote_opt(content) IN Parsed(File(TrimQuotes(q.value), Trim(q.rest)))

NewTrack(command, content) ==
    LET tk == token(content)
        id == number(2, tk.value)
    IN IF tk.ok
       THEN IF id.ok THEN Parsed(Track(ParseU8(id.value), tk.rest))
            ELSE Rejected(InvalidId)
       ELSE Rejected(syntax_error(command, MissingArguments))

NewIndex(command, content) ==
    LET tk == token(content)
        id == number(2, tk.value)
        ts == TimeStampFromStr(tk.rest)
    IN IF tk.ok
       THEN IF id.ok
            THEN IF IsSome(ts) THEN Parsed(Index(ParseU8(id.value), Unwrap(ts)))
                 ELSE Rejected(InvalidTimestamp)
            ELSE Rejected(InvalidId)
       ELSE Rejected(syntax_error(command, MissingArguments))

Dispatch(command, content) ==
    LET kw == ToAsciiLowercase(command) IN
    CASE kw = <<"r", "e", "m">> -> Parsed(Rem(content))
      [] kw = <<"t", "i", "t", "l", "e">> -> Parsed(Title(TrimQuotes(content)))
      [] kw = <<"p", "e", "r", "f", "o", "r", "m", "e", "r">> ->
            Parsed(Performer(TrimQuotes(content)))
      [] kw = <<"s", "o", "n", "g", "w", "r", "i", "t", "e", "r">> ->
            Parsed(Songwriter(TrimQuotes(content)))
      [] kw = <<"c", "a", "t", "a", "l", "o", "g">> -> NewCatalog(command, content)
      [] kw = <<"c", "d", "t", "e", "x", "t", "f", "i", "l", "e">> ->
            Parsed(Cdtextfile(TrimQuotes(content)))
      [] kw = <<"f", "i", "l", "e">> -> NewFile(command, content)
      [] kw = <<"t", "r", "a", "c", "k">> -> NewTrack(command, content)
      [] kw = <<"i", "n", "d", "e", "x">> -> NewIndex(command, content)
      [] kw = <<"p", "r", "e", "g", "a", "p">> -> Parsed(Pregap(TrimQuotes(content)))
      [] kw = <<"p", "o", "s", "t", "g", "a", "p">> -> Parsed(Postgap(TrimQuotes(content)))
      [] kw = <<"i", "s", "r", "c">> -> Parsed(Isrc(TrimQuotes(content)))
      [] kw = <<"f", "l", "a", "g">> -> Parsed(Flags(TrimQuotes(content)))
      [] OTHER -> Rejected(unexpected_token(command))

(* Command::new without the leading s.trim() *)
CommandNew_NoTrim(s) ==
    IF s = <<>> THEN Rejected(Empty)
    ELSE IF ~token(s).ok THEN Rejected(syntax_error(s, MissingArguments))
    ELSE Dispatch(token(s).value, token(s).rest)

(* Command::new(s) *)
CommandNew(s) ==
    LET ts == Trim(s)
        tk == token(ts)
    IN IF ts = <<>> THEN Rejected(Empty)
       ELSE IF ~tk.ok THEN Rejected(syntax_error(ts, MissingArguments))
       ELSE Dispatch(tk.value, tk.rest)

(* ---------------------------- command inputs --------------------------- *)
TsA == <<"0", "0", ":", "0", "2", ":", "0", "0">>
TsB == <<"0", "1", ":", "3", "0", ":", "7", "4">>
TsBad == <<"x", "d">>

RemCommands == {Rem(<<"c">>)}
TitleCommands == {Title(<<"t">>)}
PerformerCommands == {Performer(<<"p">>)}
SongwriterCommands == {Songwriter(<<"s">>)}
CatalogCommands == {Catalog(<<"7">>), Catalog(<<"4", "2">>)}
CdtextfileCommands == {Cdtextfile(<<"a">>), Cdtextfile(<<"b">>)}
FileCommands == {File(<<"f">>, <<"W">>)}
TrackCommands == {Track(1, <<"A">>)}
IndexCommands == {Index(1, TimeStampNew(0, 0, 0))}
PregapCommands == {Pregap(TsA), Pregap(TsB), Pregap(TsBad)}
PostgapCommands == {Postgap(TsA), Postgap(TsB), Postgap(TsBad)}
IsrcCommands == {Isrc(<<"i">>), Isrc(<<"j">>)}
FlagsCommands == {Flags(<<"D", " ", "P">>), Flags(<<"4">>), Flags(<<"D", " ", " ", "P">>)}

(* ---------------------------- Parser ----------------------------------- *)
(* error::Error { error, at } *)
ScanOk == [error |-> Ok, at |-> None]
(* Error::new given the 0-based index of the line *)
ErrorNew_ZeroBased(error, at) == [error |-> error, at |-> Some(at - 1)]

ErrorNew(error, at) == [error |-> error, at |-> Some(at)]

(* The loop shared by parse_next_n_lines and parse: Enumerate<Lines> stands *)
(* at 0-based index p, at most k more lines are taken.                      *)
RECURSIVE Scan(_, _, _, _)
Scan(lines, p, k, sh) ==
    IF k = 0 \/ p >= Len(lines) THEN [sheet |-> sh, pos |-> p, perr |-> ScanOk]
    ELSE LET c == CommandNew(lines[p + 1]) IN
         IF c.res.kind = "Empty" THEN Scan(lines, p + 1, k - 1, sh)
         ELSE IF c.res # Ok
         THEN [sheet |-> sh, pos |-> p + 1, perr |-> ErrorNew(c.res, p + 1)]
         ELSE LET r == CommandParse(c.cmd, sh) IN
              IF r.res # Ok
              THEN [sheet |-> r.sheet, pos |-> p + 1, perr |-> ErrorNew(r.res, p + 1)]
              ELSE Scan(lines, p + 1, k - 1, r.sheet)

(* parse_next_n_lines whose iterator adaptor takes one line more than it yields *)
parse_next_n_lines_DropsPeeked(lines, p, k, sh) ==
    [Scan(lines, p, k, sh) EXCEPT
        !.pos = IF k > 0 /\ @ < Len(lines) THEN @ + 1 ELSE @]

(* parse_next_n_lines that steps back to the line that failed *)
parse_next_n_lines_RetriesFailed(lines, p, k, sh) ==
    LET r == Scan(lines, p, k, sh) IN
    IF r.perr = ScanOk THEN r ELSE [r EXCEPT !.pos = @ - 1]

parse_next_n_lines(lines, p, k, sh) == Scan(lines, p, k, sh)

(* parse that restores the document it was given when a line fails *)
parse_RollsBack(lines, p, sh) ==
    IF Scan(lines, p, Len(lines), sh).perr = ScanOk
    THEN Scan(lines, p, Len(lines), sh)
    ELSE [Scan(lines, p, Len(lines), sh) EXCEPT !.sheet = sh]

parse(lines, p, sh) == Scan(lines, p, Len(lines), sh)

(* ---------------------------- scanner inputs --------------------------- *)
LnEmpty == <<>>
LnTab == <<" ", "\t">>
LnFile == <<"F", "I", "L", "E", " ", "\"", "f", "\"", " ", "W">>
LnTrack == <<"T", "R", "A", "C", "K", " ", "0", "1", " ", "A">>
LnIndex == <<"I", "N", "D", "E", "X", " ", "0", "1", " ",
             "0", "0", ":", "0", "0", ":", "0", "0">>
LnTitle == <<" ", "t", "i", "t", "l", "e", " ", "\"", "t", "\"", "\t">>
LnPregap == <<"P", "R", "E", "G", "A", "P", " ", "0", "0", ":", "0", "2", ":", "0", "0">>
LnUnknown == <<"F", "O", "O", " ", "x">>
LnTrack0 == <<"T", "R", "A", "C", "K", " ", "0", "0", " ", "A">>
LnIndex0 == <<"I", "N", "D", "E", "X", " ", "0", "0", " ",
              "0", "0", ":", "0", "0", ":", "0", "0">>

BlankLines == {LnEmpty, LnTab}
LinePool == BlankLines \cup
            {LnFile, LnTrack, LnIndex, LnTitle, LnPregap, LnUnknown,
             LnTrack0, LnIndex0}
Texts == UNION {[1..k -> LinePool] : k \in 0..MaxLines}

(* ---------------------------- builder specification -------------------- *)
Init ==
    /\ sheet = CunaDefault
    /\ cmd = NoCommand
    /\ res = Ok
    /\ n = 0
    /\ text = <<>>
    /\ pos = 0
    /\ perr = ScanOk
    /\ alive = TRUE
    /\ out = None

(* one call c.parse(&mut sheet) *)
Apply(c) ==
    /\ n < MaxCmds
    /\ LET r == CommandParse(c, sheet) IN
           sheet' = r.sheet /\ res' = r.res
    /\ cmd' = c
    /\ n' = n + 1
    /\ UNCHANGED <<text, pos, perr, alive, out>>

ApplyRem == \E c \in RemCommands : Apply(c)
ApplyTitle == \E c \in TitleCommands : Apply(c)
ApplyPerformer == \E c \in PerformerCommands : Apply(c)
ApplySongwriter == \E c \in SongwriterCommands : Apply(c)
ApplyCatalog == \E c \in CatalogCommands : Apply(c)
ApplyCdtextfile == \E c \in CdtextfileCommands : Apply(c)
ApplyFile == \E c \in FileCommands : Apply(c)
ApplyTrack == \E c \in TrackCommands : Apply(c)
ApplyIndex == \E c \in IndexCommands : Apply(c)
ApplyPregap == \E c \in PregapCommands : Apply(c)
ApplyPostgap == \E c \in PostgapCommands : Apply(c)
ApplyIsrc == \E c \in IsrcCommands : Apply(c)
ApplyFlags == \E c \in FlagsCommands : Apply(c)

Next ==
    \/ ApplyRem
    \/ ApplyTitle
    \/ ApplyPerformer
    \/ ApplySongwriter
    \/ ApplyCatalog
    \/ ApplyCdtextfile
    \/ ApplyFile
    \/ ApplyTrack
    \/ ApplyIndex
    \/ ApplyPregap
    \/ ApplyPostgap
    \/ ApplyIsrc
    \/ ApplyFlags

Spec == Init /\ [][Next]_vars

(* ---------------------------- scanner specification -------------------- *)
ScanInit ==
    /\ sheet = CunaDefault
    /\ cmd = NoCommand
    /\ res = Ok
    /\ n = 0
    /\ text \in Texts
    /\ pos = 0
    /\ perr = ScanOk
    /\ alive = TRUE
    /\ out = None

(* Parser::parse_next_n_lines(k, &mut sheet) *)
CallNextN(k) ==
    /\ alive
    /\ LET r == parse_next_n_lines(text, pos, k, sheet) IN
           sheet' = r.sheet /\ pos' = r.pos /\ perr' = r.perr
    /\ UNCHANGED <<cmd, res, n, text, alive, out>>

(* Parser::parse_next_line(&mut sheet) *)
ParseNextLine == CallNextN(1)

ParseNextNLines == \E k \in (0..MaxBatch) \ {1} : CallNextN(k)

(* Parser::parse(self, &mut sheet): the parser is consumed *)
ParseAll ==
    /\ alive
    /\ LET r == parse(text, pos, sheet) IN
           sheet' = r.sheet /\ pos' = r.pos /\ perr' = r.perr
    /\ alive' = FALSE
    /\ UNCHANGED <<cmd, res, n, text, out>>

ScanNext ==
    \/ ParseNextLine
    \/ ParseNextNLines
    \/ ParseAll

SpecScan == ScanInit /\ [][ScanNext]_vars

(* ---------------------------- grammar inputs --------------------------- *)
Keywords ==
    {<<"R", "E", "M">>, <<"T", "I", "T", "L", "E">>,
     <<"P", "E", "R", "F", "O", "R", "M", "E", "R">>,
     <<"S", "O", "N", "G", "W", "R", "I", "T", "E", "R">>,
     <<"C", "A", "T", "A", "L", "O", "G">>,
     <<"C", "D", "T", "E", "X", "T", "F", "I", "L", "E">>,
     <<"F", "I", "L", "E">>, <<"T", "R", "A", "C", "K">>, <<"I", "N", "D", "E", "X">>,
     <<"P", "R", "E", "G", "A", "P">>, <<"P", "O", "S", "T", "G", "A", "P">>,
     <<"I", "S", "R", "C">>, <<"F", "L", "A", "G">>}
OtherTokens == {<<"F", "O", "O">>, <<"F", "L", "A", "G", "S">>, <<"T", "R", "A", "K">>}

(* the casings of a keyword that the inputs use: upper, lower, capitalised *)
Casings(k) ==
    {k, ToAsciiLowercase(k) \o <<>>, <<k[1]>> \o SubSeq(ToAsciiLowercase(k), 2, Len(k))}
KeywordForms == UNION {Casings(k) : k \in Keywords \cup OtherTokens}

CtQuoted == <<"\"", "t", "\"">>
CtBare == <<"t">>
CtId == <<"0", "1", " ", "A">>
CtId0 == <<"0", "0", " ", "A">>
CtIdTs == <<"0", "1", " ", "0", "0", ":", "0", "0", ":", "0", "0">>
CtTs == <<"0", "0", ":", "0", "2", ":", "0", "0">>
CtFile == <<"\"", "f", "\"", " ", "W">>
CtFlags == <<"D", " ", " ", "P">>
Cat13 == <<"1", "2", "3", "4", "5", "6", "7", "8", "9", "0", "1", "2", "3">>
Cat13Z == <<"0", "1", "2", "3", "4", "5", "6", "7", "8", "9", "0", "1", "2">>
Cat12 == SubSeq(Cat13, 1, 12)
Cat14 == Cat13 \o <<"4">>
Cat13X == Cat13 \o <<"x">>
Contents == {CtQuoted, CtBare, CtId, CtId0, CtIdTs, CtTs, CtFile, CtFlags,
             Cat13, Cat13Z, Cat12, Cat14, Cat13X}

GrammarLines == {k \o <<" ">> \o c : k \in KeywordForms, c \in Contents}
                    \cup KeywordForms

(* ---------------------------- grammar specification -------------------- *)
CmdInit ==
    /\ sheet = CunaDefault
    /\ cmd = NoCommand
    /\ res = Ok
    /\ n = 0
    /\ text \in {<<l>> : l \in GrammarLines}
    /\ pos = 0
    /\ perr = ScanOk
    /\ alive = TRUE
    /\ out = None

(* Command::new(line) *)
CmdNew ==
    /\ n = 0
    /\ LET r == CommandNew(text[1]) IN
           cmd' = r.cmd /\ res' = r.res
    /\ n' = 1
    /\ UNCHANGED <<sheet, text, pos, perr, alive, out>>

(* command.to_string() *)
CmdToString ==
    /\ n = 1
    /\ res = Ok
    /\ out' = Some(CommandToString(cmd))
    /\ n' = 2
    /\ UNCHANGED <<sheet, cmd, res, text, pos, perr, alive>>

CmdNext ==
    \/ CmdNew
    \/ CmdToString

SpecCmd == CmdInit /\ [][CmdNext]_vars

(* ---------------------------- properties -------------------------------- *)
TypeOK == n \in 0..MaxCmds

SameTrackCurrent ==
    /\ HasTrack(sheet)
    /\ Len(sheet'.files) = Len(sheet.files)
    /\ Len(LastFile(sheet').tracks) = Len(LastFile(sheet).tracks)

ListOf(o) == IF o = <<>> THEN <<>> ELSE o[1]

C2_IndexBeforePostgap ==
    [][ /\ (SameTrackCurrent /\ IsSome(LastTrack(sheet).postgap))
            => LastTrack(sheet').postgap = LastTrack(sheet).postgap
        /\ (cmd'.op = "Index" /\ HasTrack(sheet) /\ IsSome(LastTrack(sheet).postgap))
            => /\ res'.kind = "SyntaxError"
               /\ res'.desc = IndexBeforePostgap
               /\ LastTrack(sheet').index = LastTrack(sheet).index
               /\ sheet' = sheet
        /\ (cmd'.op = "Index" /\ HasTrack(sheet) /\ IsNone(LastTrack(sheet).postgap))
            => /\ res' = Ok
               /\ SameTrackCurrent
               /\ LastTrack(sheet').index =
                      LastTrack(sheet).index
                          \o <<[id |-> cmd'.id, begin_time |-> cmd'.ts]>>
      ]_vars

C2_Witness ==
    /\ cmd.op = "Index"
    /\ res.kind = "SyntaxError"
    /\ res.desc = IndexBeforePostgap
    /\ HasTrack(sheet)
    /\ IsSome(LastTrack(sheet).postgap)
    /\ LastTrack(sheet).index # <<>>

(* C3: PREGAP applied to a current track whose postgap is already set is   *)
(* rejected with an error and leaves the track's pregap as it was.         *)
C3_PregapBeforePostgap ==
    [][ (cmd'.op = "Pregap" /\ HasTrack(sheet) /\ IsSome(LastTrack(sheet).postgap))
            => /\ res'.kind # "Ok"
               /\ LastTrack(sheet').pregap = LastTrack(sheet).pregap
      ]_vars

(* C4: the first CATALOG sets the header catalog; every later CATALOG      *)
(* fails with a SyntaxError and the catalog keeps the first value.         *)
C4_CatalogOnce ==
    [][ /\ IsSome(sheet.header.catalog)
            => sheet'.header.catalog = sheet.header.catalog
        /\ (cmd'.op = "Catalog" /\ IsNone(sheet.header.catalog))
            => res' = Ok /\ sheet'.header.catalog = Some(cmd'.c)
        /\ (cmd'.op = "Catalog" /\ IsSome(sheet.header.catalog))
            => /\ res'.kind = "SyntaxError"
               /\ res'.desc = MultipleCatalog
               /\ sheet' = sheet
      ]_vars

C4_Witness ==
    /\ cmd.op = "Catalog"
    /\ res.kind = "SyntaxError"
    /\ IsSome(sheet.header.catalog)
    /\ Unwrap(sheet.header.catalog) # cmd.c

(* C5: a second CDTEXTFILE on a header that already has a CD-text file     *)
(* fails with a SyntaxError and the CD-text file keeps its first value.    *)
C5_CdtextfileOnce ==
    [][ (cmd'.op = "Cdtextfile" /\ IsSome(sheet.header.cdtextfile))
            => /\ res'.kind = "SyntaxError"
               /\ sheet'.header.cdtextfile = sheet.header.cdtextfile
      ]_vars

(* C6: PREGAP, POSTGAP, ISRC and FLAGS are set-once per track: while the   *)
(* same track is current a set value never changes and a further           *)
(* occurrence fails with a SyntaxError leaving the document as it was; a   *)
(* TRACK command opens a track with all four unset, on which each of the   *)
(* four is accepted again.                                                  *)
C6_SetOncePerTrack ==
    [][ /\ SameTrackCurrent =>
            /\ IsSome(LastTrack(sheet).pregap)
                   => LastTrack(sheet').pregap = LastTrack(sheet).pregap
            /\ IsSome(LastTrack(sheet).postgap)
                   => LastTrack(sheet').postgap = LastTrack(sheet).postgap
            /\ IsSome(LastTrack(sheet).isrc)
                   => LastTrack(sheet').isrc = LastTrack(sheet).isrc
            /\ IsSome(LastTrack(sheet).flags)
                   => LastTrack(sheet').flags = LastTrack(sheet).flags
        /\ (\/ cmd'.op = "Pregap" /\ HasTrack(sheet) /\ IsSome(LastTrack(sheet).pregap)
            \/ cmd'.op = "Postgap" /\ HasTrack(sheet) /\ IsSome(LastTrack(sheet).postgap)
            \/ cmd'.op = "Isrc" /\ HasTrack(sheet) /\ IsSome(LastTrack(sheet).isrc)
            \/ cmd'.op = "Flags" /\ HasTrack(sheet) /\ IsSome(LastTrack(sheet).flags))
            => res'.kind = "SyntaxError" /\ sheet' = sheet
        /\ (cmd'.op = "Track" /\ res' = Ok)
            => /\ IsNone(LastTrack(sheet').pregap)
               /\ IsNone(LastTrack(sheet').postgap)
               /\ IsNone(LastTrack(sheet').isrc)
               /\ IsNone(LastTrack(sheet').flags)
               /\ LastTrack(sheet').index = <<>>
        /\ (/\ cmd'.op = "Pregap" /\ HasTrack(sheet) /\ IsNone(LastTrack(sheet).pregap)
            /\ LastTrack(sheet).index = <<>> /\ cmd'.s \in {TsA, TsB})
            => res' = Ok /\ IsSome(LastTrack(sheet').pregap)
        /\ (/\ cmd'.op = "Postgap" /\ HasTrack(sheet) /\ IsNone(LastTrack(sheet).postgap)
            /\ cmd'.s \in {TsA, TsB})
            => res' = Ok /\ IsSome(LastTrack(sheet').postgap)
        /\ (cmd'.op = "Isrc" /\ HasTrack(sheet) /\ IsNone(LastTrack(sheet).isrc))
            => res' = Ok /\ LastTrack(sheet').isrc = Some(cmd'.s)
        /\ (cmd'.op = "Flags" /\ HasTrack(sheet) /\ IsNone(LastTrack(sheet).flags))
            => res' = Ok /\ IsSome(LastTrack(sheet').flags)
      ]_vars

C6_Witness ==
    /\ HasTrack(sheet)
    /\ Len(LastFile(sheet).tracks) = 2
    /\ IsSome(LastFile(sheet).tracks[1].isrc)
    /\ cmd.op = "Isrc"
    /\ res = Ok
    /\ LastTrack(sheet).isrc = Some(cmd.s)

(* C7: INDEX, PREGAP, POSTGAP, ISRC or FLAGS applied while no track is in  *)
(* scope fails with UnexpectedToken and leaves the document unchanged.     *)
C7_NoTrackInScope ==
    [][ (cmd'.op \in {"Index", "Pregap", "Postgap", "Isrc", "Flags"} /\ ~HasTrack(sheet))
            => res'.kind = "UnexpectedToken" /\ sheet' = sheet
      ]_vars

C7_Witness ==
    /\ cmd.op \in {"Index", "Pregap", "Postgap", "Isrc", "Flags"}
    /\ res.kind = "UnexpectedToken"
    /\ ~HasTrack(sheet)
    /\ sheet # CunaDefault

(* C8: TRACK applied to a document without a File fails with an error that *)
(* reports the missing file scope (not a duplicate CATALOG) and creates no *)
(* track; with a File, TRACK appends exactly one track to the last File    *)
(* and that track is the current track.                                    *)
C8_TrackNeedsFile ==
    [][ /\ (cmd'.op = "Track" /\ ~HasFile(sheet))
            => /\ res'.kind # "Ok"
               /\ res'.desc \notin {"multiple CATALOG commands is not allowed",
                                    "Multiple CATALOG commands is not allowed"}
               /\ sheet' = sheet
        /\ (cmd'.op = "Track" /\ HasFile(sheet))
            => /\ res' = Ok
               /\ Len(sheet'.files) = Len(sheet.files)
               /\ Len(LastFile(sheet').tracks) = Len(LastFile(sheet).tracks) + 1
               /\ LastTrack(sheet').id = cmd'.id
               /\ LastTrack(sheet').format = cmd'.format
      ]_vars

(* C9: TITLE, PERFORMER and SONGWRITER never fail; each appends its string *)
(* to the matching list of the current track when one is open and then     *)
(* leaves the header untouched, and otherwise appends to the header's list *)
(* and leaves the files untouched.                                         *)
C9_TextCommandsNeverFail ==
    [][ \A f \in {"title", "performer", "songwriter"} :
          (\/ f = "title" /\ cmd'.op = "Title"
           \/ f = "performer" /\ cmd'.op = "Performer"
           \/ f = "songwriter" /\ cmd'.op = "Songwriter")
          => /\ res' = Ok
             /\ HasTrack(sheet)
                  => /\ sheet'.header = sheet.header
                     /\ SameTrackCurrent
                     /\ LastTrack(sheet')[f] = Some(Append(ListOf(LastTrack(sheet)[f]), cmd'.s))
             /\ ~HasTrack(sheet)
                  => /\ sheet'.files = sheet.files
                     /\ sheet'.header[f] = Some(Append(ListOf(sheet.header[f]), cmd'.s))
      ]_vars

C9_Witness ==
    /\ cmd.op = "Performer"
    /\ res = Ok
    /\ HasTrack(sheet)
    /\ sheet.header.performer = Some(<<cmd.s>>)
    /\ LastTrack(sheet).performer = Some(<<cmd.s>>)

IsBlank(line) == \A i \in 1..Len(line) : line[i] \in WhiteSpace
NotBlank(line) == ~IsBlank(line)
NonBlank(lines) == SelectSeq(lines, NotBlank)

(* C10: Command::new gives Empty for every blank or white-space-only line; *)
(* a scanner call never returns Empty, a call that examined only blank     *)
(* lines returns Ok with the document unchanged, and any call leaves the   *)
(* document and reports the error kind that the same call would on the     *)
(* examined lines with the blank ones taken out, wherever they stand.      *)
C10_BlankLinesSkipped ==
    [][ /\ \A i \in 1..Len(text) : IsBlank(text[i]) => CommandNew(text[i]).res = Empty
        /\ perr'.error.kind # "Empty"
        /\ (\A i \in (pos + 1)..pos' : IsBlank(text[i]))
            => sheet' = sheet /\ perr' = ScanOk
        /\ LET dense == parse(NonBlank(SubSeq(text, pos + 1, pos')), 0, sheet) IN
               sheet' = dense.sheet /\ perr'.error = dense.perr.error
      ]_vars

C10_Witness ==
    /\ pos = 3
    /\ NotBlank(text[1])
    /\ IsBlank(text[2])
    /\ NotBlank(text[3])
    /\ perr = ScanOk
    /\ HasTrack(sheet)

WholeParse == parse(text, 0, CunaDefault)
ValidText == WholeParse.perr = ScanOk

(* C11: for a valid text, consuming all its lines through parse_next_line  *)
(* (or any other split into batch calls) on a fresh parser and an empty    *)
(* document ends without error in the document that one Parser::parse call *)
(* on the same text builds.                                                *)
C11_LineByLineEqualsParse ==
    (alive /\ pos = Len(text))
        => LET whole == WholeParse IN
           whole.perr = ScanOk => (perr = ScanOk /\ sheet = whole.sheet)

C11_Witness ==
    /\ alive
    /\ Len(text) = 3
    /\ pos = 3
    /\ ValidText
    /\ HasTrack(sheet)
    /\ LastTrack(sheet).index # <<>>

(* the error one line gives on a document: from Command::new, else from    *)
(* applying the command                                                    *)
LineError(line, sh) ==
    LET c == CommandNew(line) IN
    IF c.res # Ok THEN c.res ELSE CommandParse(c.cmd, sh).res

(* C12: an error returned by a scanner call carries the 1-based physical   *)
(* number of the line that failed: the last line the parser consumed,      *)
(* blank lines and the lines of earlier calls counted, and that line is    *)
(* not blank and gives that very error.                                    *)
C12_ErrorPosition ==
    perr.error # Ok
        => /\ perr.at = Some(pos)
           /\ pos \in 1..Len(text)
           /\ NotBlank(text[pos])
           /\ perr.error = LineError(text[pos], sheet)

C12_Witness ==
    /\ perr.error # Ok
    /\ perr.at = Some(3)
    /\ alive
    /\ IsBlank(text[2])
    /\ HasFile(sheet)

RECURSIVE ApplyLines(_, _)
ApplyLines(lines, sh) ==
    IF lines = <<>> THEN sh
    ELSE ApplyLines(Tail(lines), CommandParse(CommandNew(Head(lines)).cmd, sh).sheet)

(* C13: when Parser::parse returns an error at line k, the parser stands   *)
(* at line k and the document is the one it was given with exactly the     *)
(* non-blank lines before k applied in order (all of lines 1..k-1 for a    *)
(* fresh parser): nothing is rolled back, nothing after k is applied.      *)
C13_FailFastCommittedPrefix ==
    [][ (alive /\ ~alive' /\ perr'.error # Ok)
            => /\ pos' = Unwrap(perr'.at)
               /\ sheet' = ApplyLines(NonBlank(SubSeq(text, pos + 1, pos' - 1)), sheet)
      ]_vars

C13_Witness ==
    /\ ~alive
    /\ perr.at = Some(2)
    /\ Len(text) = 3
    /\ HasFile(sheet)
    /\ CommandNew(text[3]).res = Ok

(* ---- helpers for the grammar claims: the line under Command::new ------- *)
HasSpace(s) == \E i \in 1..Len(s) : s[i] = " "
FirstSpace(s) == CHOOSE i \in 1..Len(s) : s[i] = " " /\ \A j \in 1..(i - 1) : s[j] # " "
(* the first token of a line and what follows its separating space *)
FirstWord(line) == IF HasSpace(line) THEN SubSeq(line, 1, FirstSpace(line) - 1) ELSE line
AfterWord(line) ==
    IF HasSpace(line) THEN SubSeq(line, FirstSpace(line) + 1, Len(line)) ELSE <<>>
ToUpperChar(ch) ==
    IF \E k \in 1..26 : Lower[k] = ch THEN Upper[CHOOSE k \in 1..26 : Lower[k] = ch]
    ELSE ch
RECURSIVE ToAsciiUppercase(_)
ToAsciiUppercase(s) ==
    IF s = <<>> THEN <<>> ELSE <<ToUpperChar(Head(s))>> \o ToAsciiUppercase(Tail(s))
IsKeyword(w, k) == ToAsciiUppercase(w) = k
Supported(w) == ToAsciiUppercase(w) \in Keywords
Line(k, content) == k \o <<" ">> \o content

KwCatalog == <<"C", "A", "T", "A", "L", "O", "G">>
KwFile == <<"F", "I", "L", "E">>
KwTrack == <<"T", "R", "A", "C", "K">>
KwIndex == <<"I", "N", "D", "E", "X">>

(* lines as Display writes them: upper-case keyword, quoted text fields,   *)
(* two-digit ids, thirteen-digit catalog                                   *)
CanonicalLines ==
    {Line(<<"R", "E", "M">>, CtBare),
     Line(<<"T", "I", "T", "L", "E">>, CtQuoted),
     Line(<<"P", "E", "R", "F", "O", "R", "M", "E", "R">>, CtQuoted),
     Line(<<"S", "O", "N", "G", "W", "R", "I", "T", "E", "R">>, CtQuoted),
     Line(KwCatalog, Cat13), Line(KwCatalog, Cat13Z),
     Line(<<"C", "D", "T", "E", "X", "T", "F", "I", "L", "E">>, CtQuoted),
     Line(KwFile, CtFile), Line(KwTrack, CtId), Line(KwIndex, CtIdTs),
     Line(<<"P", "R", "E", "G", "A", "P">>, CtTs),
     Line(<<"P", "O", "S", "T", "G", "A", "P">>, CtTs),
     Line(<<"I", "S", "R", "C">>, CtBare), Line(<<"F", "L", "A", "G">>, CtBare)}

(* C14: a line in canonical form is accepted by Command::new and the       *)
(* command renders back to the same line, for every variant, TRACK and     *)
(* INDEX lines with ids such as 01 and CATALOG lines with a leading zero   *)
(* included.                                                               *)
C14_RenderIsInverse ==
    /\ (n >= 1 /\ text[1] \in CanonicalLines) => res = Ok
    /\ (n = 2 /\ text[1] \in CanonicalLines) => out = Some(text[1])

(* C15: every Track of a document built by the scanner has an id in 1..99. *)
C15_TrackIdInRange ==
    \A i \in 1..Len(sheet.files) :
        \A j \in 1..Len(sheet.files[i].tracks) :
            sheet.files[i].tracks[j].id \in 1..99

(* C16: every Index of every Track of a document built by the scanner has  *)
(* an id in 1..99.                                                         *)
C16_IndexIdInRange ==
    \A i \in 1..Len(sheet.files) :
        \A j \in 1..Len(sheet.files[i].tracks) :
            \A k \in 1..Len(sheet.files[i].tracks[j].index) :
                sheet.files[i].tracks[j].index[k].id \in 1..99

AllDigits(s) == \A i \in 1..Len(s) : IsDigit(s[i])

(* C17: Command::new accepts a CATALOG line exactly when its content is 13 *)
(* decimal digits and nothing else, and rejects any other content with a   *)
(* SyntaxError.                                                            *)
C17_CatalogThirteenDigits ==
    (n >= 1 /\ HasSpace(text[1]) /\ IsKeyword(FirstWord(text[1]), KwCatalog))
        => IF Len(AfterWord(text[1])) = 13 /\ AllDigits(AfterWord(text[1]))
           THEN res = Ok /\ cmd.op = "Catalog"
           ELSE res.kind = "SyntaxError"

(* a FILE content that is only a name: one quoted run, or one unquoted word *)
NameOnly(c) ==
    \/ /\ Len(c) >= 2 /\ c[1] = "\"" /\ c[Len(c)] = "\""
       /\ \A i \in 2..(Len(c) - 1) : c[i] # "\""
    \/ /\ c # <<>>
       /\ \A i \in 1..Len(c) : c[i] # "\"" /\ c[i] # " "

(* C18: Command::new rejects every FILE line that carries only a quoted or *)
(* unquoted name and no format token.                                      *)
C18_FileNeedsFormat ==
    (/\ n >= 1 /\ HasSpace(text[1]) /\ IsKeyword(FirstWord(text[1]), KwFile)
     /\ NameOnly(AfterWord(text[1])))
        => res # Ok

(* str::split_whitespace: the non-empty runs between white space *)
RECURSIVE Words(_)
Words(s) ==
    IF s = <<>> THEN <<>>
    ELSE IF Head(s) \in WhiteSpace THEN Words(Tail(s))
    ELSE LET k == IF \A i \in 1..Len(s) : s[i] \notin WhiteSpace THEN Len(s)
                  ELSE (CHOOSE i \in 1..Len(s) :
                            s[i] \in WhiteSpace
                            /\ \A j \in 1..(i - 1) : s[j] \notin WhiteSpace) - 1
         IN <<SubSeq(s, 1, k)>> \o Words(SubSeq(s, k + 1, Len(s)))

(* C19: after FLAGS succeeds the track's flag list is the white-space      *)
(* split list of the content's flag tokens, in order, with no empty string *)
(* in it, also when more than one space separates two tokens.              *)
C19_FlagsAreTokens ==
    [][ (cmd'.op = "Flags" /\ res' = Ok)
            => /\ LastTrack(sheet').flags = Some(Words(cmd'.s))
               /\ \A i \in 1..Len(Unwrap(LastTrack(sheet').flags)) :
                      Unwrap(LastTrack(sheet').flags)[i] # <<>>
      ]_vars

(* the same line with its keyword in upper case *)
UpperLine(line) ==
    ToAsciiUppercase(FirstWord(line)) \o SubSeq(line, Len(FirstWord(line)) + 1, Len(line))

CaseInsensitive ==
    (n >= 1 /\ Supported(FirstWord(text[1])))
        => /\ cmd = CommandNew(UpperLine(text[1])).cmd
           /\ res.kind = CommandNew(UpperLine(text[1])).res.kind
           /\ res.kind # "UnexpectedToken"

(* C20 as stated: dispatch ignores the keyword's case, and every line      *)
(* whose first token is not a supported keyword gives UnexpectedToken      *)
(* naming that token.                                                      *)
C20_UnknownTokenAlways ==
    /\ CaseInsensitive
    /\ (n >= 1 /\ ~Supported(FirstWord(text[1])))
           => res = unexpected_token(FirstWord(text[1]))

(* C20 amended: dispatch ignores the keyword's case, and a line whose      *)
(* first token is followed by a space and is not a supported keyword gives *)
(* UnexpectedToken naming that token as written; a line without a space is *)
(* a SyntaxError (missing arguments) whatever its token.                   *)
C20_KeywordDispatch ==
    /\ CaseInsensitive
    /\ (n >= 1 /\ HasSpace(text[1]) /\ ~Supported(FirstWord(text[1])))
           => res = unexpected_token(FirstWord(text[1]))
    /\ (n >= 1 /\ ~HasSpace(text[1]))
           => res = syntax_error(text[1], MissingArguments)

C20_Witness ==
    /\ n >= 1
    /\ FirstWord(text[1]) = <<"F", "l", "a", "g", "s">>
    /\ HasSpace(text[1])
    /\ res = unexpected_token(<<"F", "l", "a", "g", "s">>)

(* The frame of one call: b is the document after, a the document before.  *)
AppendOnlyFrame(a, b) ==
    LET nf == Len(a.files) IN
    /\ Len(b.files) \in {nf, nf + 1}
    /\ \A i \in 1..nf :
           (i < nf \/ Len(b.files) = nf + 1) => b.files[i] = a.files[i]
    /\ (nf > 0 /\ Len(b.files) = nf)
           => LET fa == a.files[nf]
                  fb == b.files[nf]
                  nt == Len(fa.tracks)
              IN /\ fb.name = fa.name
                 /\ fb.format = fa.format
                 /\ Len(fb.tracks) \in {nt, nt + 1}
                 /\ \A j \in 1..nt :
                        (j < nt \/ Len(fb.tracks) = nt + 1)
                            => fb.tracks[j] = fa.tracks[j]

(* C21: one applied command leaves every File but the last and every Track *)
(* but the last Track of the last File as they were; the file list and the *)
(* last File's track list keep their elements in place and grow by at most *)
(* one element at the end; an appended File or Track leaves the former     *)
(* last one as it was.                                                     *)
C21_AppendOnlyFrame == [][AppendOnlyFrame(sheet, sheet')]_vars

C21_Witness ==
    /\ cmd.op = "Title"
    /\ res = Ok
    /\ Len(sheet.files) = 2
    /\ Len(sheet.files[1].tracks) = 1
    /\ sheet.files[1].tracks[1].title = None
    /\ Len(sheet.files[2].tracks) = 1
    /\ sheet.files[2].tracks[1].title # None
    /\ sheet.header.title = None

(* C22: a call of Command::parse that returns an error, whichever variant  *)
(* and whichever error (duplicate, ordering, out of scope, invalid         *)
(* timestamp), leaves the document exactly as it was before the call.      *)
C22_AtomicOnFailure == [][res' # Ok => sheet' = sheet]_vars

C22_Witness ==
    /\ cmd \in PostgapCommands
    /\ res = InvalidTimestamp
    /\ HasTrack(sheet)
    /\ LastTrack(sheet).index # <<>>
    /\ IsNone(LastTrack(sheet).postgap)

Min(a, b) == IF a <= b THEN a ELSE b

(* how far a call parse_next_n_lines(k) may move the cursor *)
Advance(k) ==
    LET take == Min(k, Len(text) - pos) IN
    /\ perr' = ScanOk => pos' = pos + take
    /\ perr'.error # Ok
           => /\ pos' = Unwrap(perr'.at)
              /\ pos' \in (pos + 1)..(pos + take)

(* C23: a call parse_next_n_lines(k) moves the cursor past exactly the     *)
(* lines it examined: min(k, remaining) lines, blank ones counted, when it *)
(* returns Ok, and the lines up to and including the failing one when it   *)
(* returns an error, whose number is the absolute line number; so a call   *)
(* after an error starts at the line after the failing one.                *)
(* Stated by contraposition: no step that moves the cursor otherwise is a  *)
(* call parse_next_n_lines(k).                                             *)
C23_CursorAdvance ==
    [][\A k \in 0..MaxBatch : ~Advance(k) => ~CallNextN(k)]_vars

C23_Witness ==
    /\ alive
    /\ Len(text) = 3
    /\ text[1] = LnFile
    /\ text[2] = LnUnknown
    /\ IsBlank(text[3])
    /\ pos = 3
    /\ perr = ScanOk
    /\ HasFile(sheet)

====
